---- MODULE Spec2Model ----
(***************************************************************************)
(* Model of the binary snapshot decoder (extract), the history merge       *)
(* (merge_history) and the run pipeline (main) of build_all_sells.py and   *)
(* market_update.py.  The two scripts carry the same core, line for line.  *)
(*                                                                         *)
(* Python dictionaries are functions.  A dictionary key that the code      *)
(* converts between int and str is a pair <<"int", n>> or <<"str", n>>, so *)
(* that 7 and "7" are different keys, as they are in Python.               *)
(***************************************************************************)
EXTENDS Integers, Sequences, FiniteSets, TLC

VARIABLES content,      \* the fetched buffer
          pc,           \* where the run is
          extracted,    \* extract's histograms of the last buffer
          rows,         \* extract's flat SELL rows
          stalls,       \* extract's count of decoded stalls
          today,        \* date.today(), as a day number
          disk,         \* market_history.json as a parsed document
          loaded,       \* the history as the last run loaded it
          history,      \* the history in memory after merge_history
          runs,         \* pipeline runs so far
          reported,     \* log: <<run, day, kind, item_id, price, quantity>> of every merged snapshot
          plan,         \* the buffers of two runs A and B that are to be serialized
          doneRuns,     \* which of the two have run
          disk0,        \* the file before the two runs
          applied,      \* calls of merge_history on one in-memory history
          first,        \* the history after the first of these calls
          shared,       \* history[today] is the very object the caller holds as the snapshot
          raised,       \* an exception was raised
          include_today,\* the include_today argument of the statistics calls
          outlier_multiplier, \* the out_mult argument of compute_sell_averages, a fraction
          medians,      \* compute_sell_medians' result (twice the medians)
          averages      \* compute_sell_averages' result

\* ------------------------------------------------------------------ bounds
MaxStalls == 2      \* full 930-byte chunks in a buffer of the decoder runs
MaxDays == 2        \* calendar days the pipeline runs on
MaxRuns == 3        \* pipeline runs in one behaviour

\* ------------------------------------------------------- program constants
chunk_size == 930
SLOTS_PER_STALL == 18
BASE_OFF == 138
slot_size == 44          \* struct.calcsize("=HIB37s") = 2 + 4 + 1 + 37
SeekOff == 8             \* buf.seek(8)

\* ---------------------------------------------------------- Python values
IntKey(n) == <<"int", n>>
StrKey(n) == <<"str", n>>
str(k) == <<"str", k[2]>>          \* str(7) = "7", str("7") = "7"
int(k) == k[2]                     \* int("7") = 7, int(7) = 7
EmptyDict == <<>>
Get(d, k, default) == IF k \in DOMAIN d THEN d[k] ELSE default
Put(d, k, v) == [x \in (DOMAIN d) \cup {k} |-> IF x = k THEN v ELSE d[x]]
Min(a, b) == IF a <= b THEN a ELSE b
Max(a, b) == IF a >= b THEN a ELSE b

\* ------------------------------------------------------------ wire format
\* A slot on the wire: 2 bytes item id, 4 bytes price, 1 byte quantity, all
\* little-endian, then 37 bytes that nothing reads.
U16LE(b) == b[1] + 256 * b[2]
U32LE(b) == b[3] + 256 * b[4] + 65536 * b[5] + 16777216 * b[6]
U8(b) == b[7]
ZeroSlot == <<0, 0, 0, 0, 0, 0, 0>>
SlotChoices == { <<0, 0, 5, 0, 0, 0, 3>>,      \* item 0 with a price and a quantity
                 <<1, 0, 5, 0, 0, 0, 1>>,      \* item 1, price 5, quantity 1
                 <<1, 0, 5, 0, 0, 0, 2>>,      \* item 1, price 5, quantity 2
                 <<0, 1, 7, 0, 0, 0, 0>> }     \* item 256, price 7, quantity 0
\* Stall headers after _clean: the type flag, the seller, description and location.
HeaderChoices == { [stall_type |-> 1, seller |-> "ann", desc |-> "", location |-> "dock"],
                   [stall_type |-> 0, seller |-> "bob", desc |-> "shop", location |-> "gate"],
                   [stall_type |-> 2, seller |-> "cyd", desc |-> "shop", location |-> "gate"] }
WireOffsets == {138 + 44 * i : i \in 0..17}
\* The first slot is empty or offers item 1; the last slot holds any of
\* SlotChoices; the slots in between are zero bytes.
FirstSlotChoices == {ZeroSlot, <<1, 0, 5, 0, 0, 0, 1>>}
FilledOffsets == {886}
SlotLayouts == {[o \in WireOffsets |-> IF o \in FilledOffsets THEN g[o]
                                       ELSE IF o = 138 THEN s0 ELSE ZeroSlot] :
                  g \in [FilledOffsets -> SlotChoices], s0 \in FirstSlotChoices}
Chunks == {[hdr |-> h, at |-> f] : h \in HeaderChoices, f \in SlotLayouts}
\* What the bytes of a trailing short chunk would decode to if they were read
\* as a stall: a SELL stall offering item 1.
TailChunk == [hdr |-> [stall_type |-> 1, seller |-> "eve", desc |-> "tail", location |-> "pier"],
              at |-> [o \in WireOffsets |-> <<1, 0, 5, 0, 0, 0, 2>>]]
TailLens == {0, 1, 929}
\* A buffer: its length in bytes and, for each 930-byte window after the
\* 8-byte header, the fields those bytes hold (the last window may be short).
BufferOf(full, k) == [size |-> 8 + 930 * Len(full) + k,
                      windows |-> IF k > 0 THEN Append(full, TailChunk) ELSE full]
FullSeqs(n) == UNION {[1..m -> Chunks] : m \in 0..n}
ShortBuffers == {[size |-> n, windows |-> <<>>] : n \in {0, 3}}
Buffers(n) == {BufferOf(full, k) : full \in FullSeqs(n), k \in TailLens} \cup ShortBuffers

\* ------------------------------------------------------------------ extract
\* len(chunk) < chunk_size
ShortReadOnEmpty(n) == n = 0
ShortRead(n) == n < chunk_size
\* item_id <= 0
SlotSkippedNegative(item_id) == item_id < 0
SlotSkipped(item_id) == item_id <= 0
\* items[stype][item_id].get(item_price, 0) + quantity
AccumulateOverwrite(prev, quantity) == quantity
Accumulate(prev, quantity) == prev + quantity
\* "SELL" if stall_type == 1 else "BUY"
StallKind(stall_type) == IF stall_type = 1 THEN "SELL" ELSE "BUY"
\* stall_desc or location
StallName(hdr) == IF hdr.desc # "" THEN hdr.desc ELSE hdr.location
\* buf.read(chunk_size) at position pos: the number of bytes returned
ReadLen(buf, pos) == Min(chunk_size, Max(0, buf.size - pos))

\* The body of "for i in range(SLOTS_PER_STALL)" for slot i and after it.
RECURSIVE ExtractSlots(_, _, _, _)
ExtractSlots(chunk, i, items, rws) ==
  IF i >= SLOTS_PER_STALL THEN [items |-> items, rows |-> rws]
  ELSE LET off == BASE_OFF + i * slot_size
           raw == chunk.at[off]
           item_id == U16LE(raw)
           item_price == U32LE(raw)
           quantity == U8(raw)
           stype == StallKind(chunk.hdr.stall_type)
       IN IF SlotSkipped(item_id) THEN ExtractSlots(chunk, i + 1, items, rws)
          ELSE LET pm == Get(items[stype], IntKey(item_id), EmptyDict)
                   pm2 == Put(pm, IntKey(item_price),
                              Accumulate(Get(pm, IntKey(item_price), 0), quantity))
                   items2 == Put(items, stype, Put(items[stype], IntKey(item_id), pm2))
                   rws2 == IF stype = "SELL"
                           THEN Append(rws, [item_id |-> item_id, price |-> item_price,
                                             quantity |-> quantity,
                                             seller |-> chunk.hdr.seller,
                                             stall |-> StallName(chunk.hdr)])
                           ELSE rws
               IN ExtractSlots(chunk, i + 1, items2, rws2)

\* The "while True" loop after n chunks were decoded.
RECURSIVE ExtractLoop(_, _, _, _)
ExtractLoop(buf, n, items, rws) ==
  LET pos == SeekOff + n * chunk_size
  IN IF ShortRead(ReadLen(buf, pos))
     THEN [items |-> items, rows |-> rws, stalls |-> n]
     ELSE LET r == ExtractSlots(buf.windows[n + 1], 0, items, rws)
          IN ExtractLoop(buf, n + 1, r.items, r.rows)

EmptySnapshot == [s \in {"BUY", "SELL"} |-> EmptyDict]
extract(buf) == ExtractLoop(buf, 0, EmptySnapshot, <<>>)

\* ------------------------------------------------------------ merge_history
\* max(int(q), int(prev or 0))
MergeQtySum(q, prev) == q + prev
MergeQtyOverwrite(q, prev) == q
MergeQty(q, prev) == Max(q, prev)

\* "for p, q in pm.items()": fold the prices ps of pm into the stored price map.
\* The order of a fold over a dictionary is its insertion order; the result
\* does not depend on it, because each step only raises one stored quantity.
RECURSIVE MergePrices(_, _, _)
MergePrices(stored, pm, ps) ==
  IF ps = {} THEN stored
  ELSE LET p == CHOOSE x \in ps : TRUE
           prev == Get(stored, str(p), 0)          \* .get(p) is None: "prev or 0" is 0
       IN MergePrices(Put(stored, str(p), MergeQty(pm[p], prev)), pm, ps \ {p})

\* "for iid, pm in imap.items()": fold the items ids of imap into the stored histogram.
RECURSIVE MergeItems(_, _, _)
MergeItems(hist, imap, ids) ==
  IF ids = {} THEN hist
  ELSE LET iid == CHOOSE x \in ids : TRUE
           pm0 == Get(hist, str(iid), EmptyDict)   \* setdefault(str(iid), {})
       IN MergeItems(Put(hist, str(iid), MergePrices(pm0, imap[iid], DOMAIN imap[iid])),
                     imap, ids \ {iid})

\* history[today].setdefault(stype, {}): the histogram, and whether the lookup raises
KindOfIndexed(day, stype) == [raised |-> stype \notin DOMAIN day, val |-> Get(day, stype, EmptyDict)]
KindOf(day, stype) == [raised |-> FALSE, val |-> Get(day, stype, EmptyDict)]

\* "for stype, imap in extracted.items()": fold the kinds into today's entry.
RECURSIVE MergeKinds(_, _, _)
MergeKinds(day, snap, stypes) ==
  IF stypes = {} THEN day
  ELSE LET stype == CHOOSE x \in stypes : TRUE
           h0 == KindOf(day, stype).val
       IN MergeKinds(Put(day, stype, MergeItems(h0, snap[stype], DOMAIN snap[stype])),
                     snap, stypes \ {stype})

merge_history_always_merge(hist, snap, day) ==
  Put(hist, day, MergeKinds(Get(hist, day, EmptyDict), snap, DOMAIN snap))
merge_history_only_today(hist, snap, day) ==
  IF day \notin DOMAIN hist THEN Put(EmptyDict, day, snap)
  ELSE Put(hist, day, MergeKinds(hist[day], snap, DOMAIN snap))
\* merge_history(history, extracted), with today = date.today() as a parameter
merge_history(hist, snap, day) ==
  IF day \notin DOMAIN hist THEN Put(hist, day, snap)
  ELSE Put(hist, day, MergeKinds(hist[day], snap, DOMAIN snap))

\* -------------------------------------------------------------- statistics
INCLUDE_TODAY_HISTORY == TRUE
\* OUTLIER_MULTIPLIER = 3.0, as a fraction
OUTLIER_MULTIPLIER == [num |-> 3, den |-> 1]
\* A dictionary key read from a file that is a string but not a number: int() raises ValueError on it.
BadKey == <<"bad", 0>>
IntRaises(k) == k[1] = "bad"

\* data.get("SELL", {}): the histogram, and whether the lookup raises
SellOfIndexed(data) == [raised |-> "SELL" \notin DOMAIN data, val |-> Get(data, "SELL", EmptyDict)]
SellOf(data) == [raised |-> FALSE, val |-> Get(data, "SELL", EmptyDict)]

\* "if not include_today and day == today: continue"
QualifyingDays(hist, inc, day) == {d \in DOMAIN hist : inc \/ d # day}
\* The (day, item key, price key) triples the two loops visit.
SellPairs(hist, inc, day) ==
  UNION {UNION {{<<d, iid, pk>> : pk \in DOMAIN SellOf(hist[d]).val[iid]} :
                  iid \in DOMAIN SellOf(hist[d]).val} :
           d \in QualifyingDays(hist, inc, day)}
PriceAt(o) == int(o[3])
QtyAt(hist, o) == SellOf(hist[o[1]]).val[o[2]][o[3]]

\* The prices of the triples O in ascending order.
RECURSIVE SortedPrices(_)
SortedPrices(O) ==
  IF O = {} THEN <<>>
  ELSE LET o == CHOOSE x \in O : \A y \in O : PriceAt(x) <= PriceAt(y)
       IN <<PriceAt(o)>> \o SortedPrices(O \ {o})
Median2UpperMiddle(vals) == 2 * vals[Len(vals) \div 2 + 1]
\* pd.Series(vals).median(), doubled so that it stays an integer
Median2(vals) ==
  LET n == Len(vals)
  IN IF n % 2 = 1 THEN 2 * vals[(n + 1) \div 2]
     ELSE vals[n \div 2] + vals[n \div 2 + 1]

\* compute_sell_medians(history, include_today): item id -> twice the median
\* of its recorded SELL prices.  int(iid) and int(p) are evaluated once for
\* every price key.
compute_sell_medians(hist, inc, day) ==
  LET O == SellPairs(hist, inc, day)
      fails == \/ \E d \in QualifyingDays(hist, inc, day) : SellOf(hist[d]).raised
               \/ \E o \in O : IntRaises(o[2]) \/ IntRaises(o[3])
  IN IF fails THEN [raised |-> TRUE, val |-> EmptyDict]
     ELSE [raised |-> FALSE,
           val |-> [n \in {int(o[2]) : o \in O} |->
                      Median2(SortedPrices({o \in O : int(o[2]) = n}))]]

SurvivesAnyQuantity(hist, meds, out_mult, o) ==
  ~(/\ int(o[2]) \in DOMAIN meds
    /\ 2 * out_mult.den * PriceAt(o) >= meds[int(o[2])] * out_mult.num)
SurvivesAtThreshold(hist, meds, out_mult, o) ==
  /\ QtyAt(hist, o) > 0
  /\ ~(/\ int(o[2]) \in DOMAIN meds
       /\ 2 * out_mult.den * PriceAt(o) > meds[int(o[2])] * out_mult.num)
\* "if q <= 0: continue" and "if med is not None and p >= med * out_mult: continue"
Survives(hist, meds, out_mult, o) ==
  /\ QtyAt(hist, o) > 0
  /\ ~(/\ int(o[2]) \in DOMAIN meds
       /\ 2 * out_mult.den * PriceAt(o) >= meds[int(o[2])] * out_mult.num)
RECURSIVE SumPQ(_, _)
SumPQ(hist, O) == IF O = {} THEN 0
                  ELSE LET o == CHOOSE x \in O : TRUE
                       IN PriceAt(o) * QtyAt(hist, o) + SumPQ(hist, O \ {o})
RECURSIVE SumQ(_, _)
SumQ(hist, O) == IF O = {} THEN 0
                 ELSE LET o == CHOOSE x \in O : TRUE
                      IN QtyAt(hist, o) + SumQ(hist, O \ {o})

\* compute_sell_averages(history, include_today, medians, out_mult): item id ->
\* (sum_pq / sum_q, obs), the quotient kept as the pair sum_pq, sum_q.
\* int(iid) is evaluated for every item key, int(p) for every price key.
compute_sell_averages(hist, inc, meds, out_mult, day) ==
  LET O == SellPairs(hist, inc, day)
      days == QualifyingDays(hist, inc, day)
      fails == \/ \E d \in days : SellOf(hist[d]).raised
               \/ \E d \in days : \E iid \in DOMAIN SellOf(hist[d]).val : IntRaises(iid)
               \/ \E o \in O : IntRaises(o[3])
      S == {o \in O : Survives(hist, meds, out_mult, o)}
  IN IF fails THEN [raised |-> TRUE, val |-> EmptyDict]
     ELSE [raised |-> FALSE,
           val |-> [n \in {int(o[2]) : o \in S} |->
                      LET Sn == {o \in S : int(o[2]) = n}
                      IN [sum_pq |-> SumPQ(hist, Sn), sum_q |-> SumQ(hist, Sn),
                          obs |-> Cardinality(Sn)]]]

\* Whether merge_history(history, extracted) raises on a history loaded from a file.
merge_history_raises(hist, snap, day) ==
  /\ day \in DOMAIN hist
  /\ \E stype \in DOMAIN snap : KindOf(hist[day], stype).raised

\* ------------------------------------------------------------- persistence
\* json.dump writes every dictionary key as a string.  When a dictionary holds
\* both 7 and "7" the document holds the key "7" twice and a later json.load
\* keeps the last one, which is the str key: merge_history adds str keys to an
\* entry whose int keys were there from the insert.
JsonKeys(d) == {str(k) : k \in DOMAIN d}
JsonPick(d, sk) == IF sk \in DOMAIN d THEN d[sk] ELSE d[CHOOSE k \in DOMAIN d : str(k) = sk]
JsonHist(h) == [ik \in JsonKeys(h) |->
                  LET pm == JsonPick(h, ik) IN [pk \in JsonKeys(pm) |-> JsonPick(pm, pk)]]
json_dump(hist) == [d \in DOMAIN hist |-> [stype \in DOMAIN hist[d] |-> JsonHist(hist[d][stype])]]

\* -------------------------------------------------------------------- main
\* The buffers the pipeline runs fetch: no whole stall, or one SELL or BUY
\* stall with one or two offers.
PipeChunk(h, s0, s17) ==
  [hdr |-> h, at |-> [o \in WireOffsets |-> IF o = 138 THEN s0
                                            ELSE IF o = 886 THEN s17 ELSE ZeroSlot]]
SellHeader == CHOOSE x \in HeaderChoices : x.stall_type = 1
BuyHeader == CHOOSE x \in HeaderChoices : x.stall_type = 0
PipeBuffers ==
  {BufferOf(<<PipeChunk(SellHeader, f, l)>>, 0) :
      f \in FirstSlotChoices, l \in {<<1, 0, 5, 0, 0, 0, 2>>, <<0, 1, 7, 0, 0, 0, 0>>}}
    \cup {BufferOf(<<PipeChunk(BuyHeader, ZeroSlot, <<1, 0, 5, 0, 0, 0, 2>>)>>, 0),
          BufferOf(<<>>, 929)}

\* What a snapshot reports, as log entries for day d.
Reports(run, d, snap) ==
  UNION {UNION {{<<run, d, kind, int(iid), int(pk), snap[kind][iid][pk]>> : pk \in DOMAIN snap[kind][iid]} :
                  iid \in DOMAIN snap[kind]} : kind \in DOMAIN snap}

\* ---------------------------------------------------------- specifications
decVars == <<content, extracted, rows, stalls>>
pipeVars == <<today, disk, loaded, history, runs, reported>>
planVars == <<plan, doneRuns, disk0>>
callVars == <<applied, first, shared, raised>>
statVars == <<include_today, outlier_multiplier, medians, averages>>
vars == <<pc, decVars, pipeVars, planVars, callVars, statVars>>

NoPipe ==
  /\ today = 1
  /\ disk = EmptyDict
  /\ loaded = EmptyDict
  /\ history = EmptyDict
  /\ runs = 0
  /\ reported = {}
NoPlan ==
  /\ plan = EmptyDict
  /\ doneRuns = {}
  /\ disk0 = EmptyDict
NoCalls ==
  /\ applied = 0
  /\ first = EmptyDict
  /\ shared = FALSE
  /\ raised = FALSE
NoStats ==
  /\ include_today = INCLUDE_TODAY_HISTORY
  /\ outlier_multiplier = OUTLIER_MULTIPLIER
  /\ medians = EmptyDict
  /\ averages = EmptyDict
NoBuffer ==
  /\ content = BufferOf(<<>>, 0)
  /\ extracted = EmptySnapshot
  /\ rows = <<>>
  /\ stalls = 0

\* --- the decoder on its own: extract on a fetched buffer
InitDecoder ==
  /\ content \in Buffers(MaxStalls)
  /\ pc = "fetched"
  /\ extracted = EmptySnapshot
  /\ rows = <<>>
  /\ stalls = 0
  /\ NoPipe /\ NoPlan /\ NoCalls /\ NoStats

\* extract(content) on the fetched buffer
Extract ==
  /\ pc = "fetched"
  /\ LET r == extract(content)
     IN /\ extracted' = r.items
        /\ rows' = r.rows
        /\ stalls' = r.stalls
  /\ pc' = "extracted"
  /\ UNCHANGED <<content, pipeVars, planVars, callVars, statVars>>

NextDecoder == Extract
SpecDecoder == InitDecoder /\ [][NextDecoder]_vars

\* --- the pipeline: runs of main(), one at a time
\* The state before the first run: no history file.
Init ==
  /\ pc = "idle"
  /\ NoBuffer /\ NoPipe /\ NoPlan /\ NoCalls /\ NoStats

\* The body of main() on the fetched buffer buf: extract, load the history
\* file (an absent file is the empty history), merge_history, write the file,
\* compute the medians and the averages from the history in memory.
Main(buf) ==
  LET r == extract(buf)
      h == merge_history(disk, r.items, today)
      med == compute_sell_medians(h, INCLUDE_TODAY_HISTORY, today).val
  IN /\ content' = buf
     /\ include_today' = INCLUDE_TODAY_HISTORY
     /\ outlier_multiplier' = OUTLIER_MULTIPLIER
     /\ medians' = med
     /\ averages' = compute_sell_averages(h, INCLUDE_TODAY_HISTORY, med,
                                          OUTLIER_MULTIPLIER, today).val
     /\ extracted' = r.items
     /\ rows' = r.rows
     /\ stalls' = r.stalls
     /\ loaded' = disk
     /\ history' = h
     /\ disk' = json_dump(h)
     /\ reported' = reported \cup Reports(runs + 1, today, r.items)
     /\ runs' = runs + 1
     /\ pc' = "ran"
     /\ UNCHANGED today

Run(buf) ==
  /\ runs < MaxRuns
  /\ Main(buf)
  /\ UNCHANGED <<planVars, callVars>>

\* Midnight passes between two runs.
NextDay ==
  /\ today < MaxDays
  /\ today' = today + 1
  /\ pc' = "idle"
  /\ UNCHANGED <<decVars, disk, loaded, history, runs, reported, planVars, callVars, statVars>>

Next == (\E buf \in PipeBuffers : Run(buf)) \/ NextDay
Spec == Init /\ [][Next]_vars

\* --- two runs of one day, serialized by the caller, in either order
\* A history file that one earlier run left, on day 1.
SeedDisks ==
  {EmptyDict} \cup {json_dump(merge_history(EmptyDict, extract(b).items, 1)) : b \in PipeBuffers}

InitTwoRuns ==
  /\ pc = "idle"
  /\ NoBuffer /\ NoCalls /\ NoStats
  /\ today \in 1..MaxDays
  /\ disk \in SeedDisks
  /\ disk0 = disk
  /\ plan \in [{"A", "B"} -> PipeBuffers]
  /\ doneRuns = {}
  /\ loaded = EmptyDict
  /\ history = EmptyDict
  /\ runs = 0
  /\ reported = {}

RunPlanned(r) ==
  /\ r \in DOMAIN plan
  /\ r \notin doneRuns
  /\ Main(plan[r])
  /\ doneRuns' = doneRuns \cup {r}
  /\ UNCHANGED <<plan, disk0, callVars>>

NextTwoRuns == \E r \in {"A", "B"} : RunPlanned(r)
SpecTwoRuns == InitTwoRuns /\ [][NextTwoRuns]_vars

\* --- merge_history called again on the history it returned
InitMerge ==
  /\ pc = "loaded"
  /\ content \in PipeBuffers
  /\ extracted = extract(content).items
  /\ rows = extract(content).rows
  /\ stalls = extract(content).stalls
  /\ today \in 1..MaxDays
  /\ history \in SeedDisks
  /\ loaded = history
  /\ disk = history
  /\ runs = 0
  /\ reported = {}
  /\ NoPlan /\ NoCalls /\ NoStats

\* The histogram kinds in the order a snapshot's dictionary holds them:
\* items = {"BUY": {}, "SELL": {}}.
KindOrder == <<"BUY", "SELL">>
\* The first kind of the snapshot that has an item, if any.
HasItems(snap) == \E i \in 1..2 : snap[KindOrder[i]] # EmptyDict
FirstKind(snap) == IF snap["BUY"] # EmptyDict THEN "BUY" ELSE "SELL"

\* merge_history(history, s) returns.  same: the caller passes the object it
\* passed before, not an equal copy of it.
MergeCall(same) ==
  /\ applied < 2
  /\ ~raised
  /\ applied = 0 => same
  /\ ~(shared /\ same /\ HasItems(extracted))
  /\ history' = merge_history(history, extracted, today)
  /\ shared' = (same /\ (shared \/ today \notin DOMAIN history))
  /\ first' = IF applied = 0 THEN history' ELSE first
  /\ applied' = applied + 1
  /\ pc' = "merged"
  /\ UNCHANGED <<raised, content, extracted, rows, stalls, today, disk, loaded, runs,
                 reported, planVars, statVars>>

\* merge_history(history, s) when history[today] is s itself and s has an
\* item: "for iid, pm in imap.items()" runs its body once, for the first item
\* iid of the first kind that has one, the body adds the key str(iid) to the
\* dictionary being iterated, and the next step of the iteration raises
\* RuntimeError (dictionary changed size during iteration).
MergeCallRaises ==
  /\ applied < 2
  /\ ~raised
  /\ shared /\ HasItems(extracted)
  /\ today \in DOMAIN history
  /\ \E iid \in DOMAIN extracted[FirstKind(extracted)] :
       LET stype == FirstKind(extracted)
           imap == extracted[stype]
           h2 == Put(imap, str(iid), MergePrices(EmptyDict, imap[iid], DOMAIN imap[iid]))
           day2 == Put(history[today], stype, h2)
       IN /\ history' = Put(history, today, day2)
          /\ extracted' = day2
  /\ raised' = TRUE
  /\ applied' = applied + 1
  /\ pc' = "merged"
  /\ UNCHANGED <<first, shared, content, rows, stalls, today, disk, loaded, runs,
                 reported, planVars, statVars>>

NextMerge == (\E same \in BOOLEAN : MergeCall(same)) \/ MergeCallRaises
SpecMerge == InitMerge /\ [][NextMerge]_vars

\* --- the three functions handed a history that a file held
\* Ways a date entry read from a file can be out of shape.
Damages == {"none", "noSELL", "noBUY", "neither", "badItem", "badPrice"}
Without(d, ks) == [k \in (DOMAIN d) \ ks |-> d[k]]
Damage(entry, dmg) ==
  CASE dmg = "none" -> entry
    [] dmg = "noSELL" -> Without(entry, {"SELL"})
    [] dmg = "noBUY" -> Without(entry, {"BUY"})
    [] dmg = "neither" -> Without(entry, {"SELL", "BUY"})
    [] dmg = "badItem" -> Put(entry, "SELL", Put(entry["SELL"], BadKey, Put(EmptyDict, StrKey(5), 1)))
    [] dmg = "badPrice" -> Put(entry, "SELL",
                               Put(entry["SELL"], StrKey(1),
                                   Put(Get(entry["SELL"], StrKey(1), EmptyDict), BadKey, 1)))
SeedEntries == {json_dump(merge_history(EmptyDict, extract(b).items, 1))[1] : b \in PipeBuffers}
LaterEntries == {e \in SeedEntries : e["BUY"] = EmptyDict /\ StrKey(256) \notin DOMAIN e["SELL"]}
HandedStores ==
  {Put(EmptyDict, 1, Damage(e1, dmg)) : e1 \in SeedEntries, dmg \in Damages}
    \cup {Put(Put(EmptyDict, 1, Damage(e1, dmg)), 2, e2) :
            e1 \in SeedEntries, dmg \in Damages, e2 \in LaterEntries}
HandedBuffers == {b \in PipeBuffers : b.size # 8 + 930 \/ b.windows[1].at[138] = ZeroSlot}

InitHanded ==
  /\ pc = "handed"
  /\ content \in HandedBuffers
  /\ extracted = extract(content).items
  /\ rows = extract(content).rows
  /\ stalls = extract(content).stalls
  /\ today \in 1..MaxDays
  /\ loaded \in HandedStores
  /\ history = loaded
  /\ disk = loaded
  /\ runs = 0
  /\ reported = {}
  /\ NoPlan /\ NoCalls /\ NoStats

\* merge_history(history, extracted) on the handed history
CallMerge ==
  /\ pc = "handed"
  /\ history' = merge_history(loaded, extracted, today)
  /\ raised' = merge_history_raises(loaded, extracted, today)
  /\ pc' = "merged"
  /\ UNCHANGED <<decVars, today, disk, loaded, runs, reported, planVars,
                 applied, first, shared, statVars>>

\* compute_sell_medians(history, include_today) on the handed history
CallMedians(inc) ==
  /\ pc = "handed"
  /\ LET r == compute_sell_medians(loaded, inc, today)
     IN medians' = r.val /\ raised' = r.raised
  /\ include_today' = inc
  /\ pc' = "medians"
  /\ UNCHANGED <<decVars, pipeVars, planVars, applied, first, shared, outlier_multiplier, averages>>

\* compute_sell_averages(history, include_today, medians, mult) on the handed
\* history, with the medians just computed and the same include_today
CallAverages(mult) ==
  /\ pc = "medians"
  /\ ~raised
  /\ LET r == compute_sell_averages(loaded, include_today, medians, mult, today)
     IN averages' = r.val /\ raised' = r.raised
  /\ outlier_multiplier' = mult
  /\ pc' = "averages"
  /\ UNCHANGED <<decVars, pipeVars, planVars, applied, first, shared, include_today, medians>>

NextHanded ==
  CallMerge \/ (\E inc \in BOOLEAN : CallMedians(inc)) \/ CallAverages(OUTLIER_MULTIPLIER)
SpecHanded == InitHanded /\ [][NextHanded]_vars

\* --- the statistics on histories of several days
\* A histogram with string keys from <<item_id, price, quantity>> triples.
HistOf(T) ==
  [ik \in {StrKey(t[1]) : t \in T} |->
     [pk \in {StrKey(t[2]) : t \in {x \in T : x[1] = int(ik)}} |->
        (CHOOSE t \in T : t[1] = int(ik) /\ t[2] = int(pk))[3]]]
\* The SELL offers of one day, as <<item_id, price, quantity>> triples.
StatOffers == { {},
                {<<1, 10, 5>>},
                {<<1, 10, 0>>, <<2, 0, 3>>},
                {<<1, 10, 2>>, <<1, 30, 5>>},
                {<<1, 1, 1>>, <<1, 10, 5>>},
                {<<1, 1, 1>>, <<1, 10, 2>>, <<1, 29, 5>>, <<1, 30, 5>>},
                {<<1, 8, 2>>, <<1, 12, 2>>, <<2, 0, 1>>, <<2, 4, 0>>} }
\* Every day also has a BUY request, at a price no SELL offer has.
StatEntries == {[SELL |-> HistOf(T), BUY |-> HistOf({<<1, 1000, 9>>})] : T \in StatOffers}
\* An entry as extract returns it and merge_history inserts it: integer keys.
IntKeyed(pm) == [k \in {IntKey(int(x)) : x \in DOMAIN pm} |-> pm[str(k)]]
AsExtracted(entry) ==
  [kind \in DOMAIN entry |->
     [ik \in {IntKey(int(x)) : x \in DOMAIN entry[kind]} |-> IntKeyed(entry[kind][str(ik)])]]
\* The histories main() hands to the statistics on day `day`: every day's entry
\* as loaded from the file, or today's entry as this run inserted it.
StatStores(day) ==
  {EmptyDict} \cup
  {[d \in 1..MaxDays |-> IF fresh /\ d = day THEN AsExtracted(f[d]) ELSE f[d]] :
      f \in [1..MaxDays -> StatEntries], fresh \in BOOLEAN}
\* Multipliers that floating point represents exactly: 0.5, 1.0, 1.5, 3.0.
Multipliers == {[num |-> 1, den |-> 2], [num |-> 1, den |-> 1],
                [num |-> 3, den |-> 2], [num |-> 3, den |-> 1]}

InitStats ==
  /\ pc = "handed"
  /\ today \in 1..MaxDays
  /\ loaded \in StatStores(today)
  /\ history = loaded
  /\ disk = EmptyDict
  /\ runs = 0
  /\ reported = {}
  /\ NoBuffer /\ NoPlan /\ NoCalls /\ NoStats

\* compute_sell_averages(history, include_today, {}, mult): a caller that has
\* no medians passes none
CallAveragesNoMedians(inc, mult) ==
  /\ pc = "handed"
  /\ LET r == compute_sell_averages(loaded, inc, EmptyDict, mult, today)
     IN averages' = r.val /\ raised' = r.raised
  /\ include_today' = inc
  /\ outlier_multiplier' = mult
  /\ pc' = "averages_no_medians"
  /\ UNCHANGED <<decVars, pipeVars, planVars, applied, first, shared, medians>>

NextStats ==
  \/ \E inc \in BOOLEAN : CallMedians(inc)
  \/ \E mult \in Multipliers : CallAverages(mult)
  \/ \E inc \in BOOLEAN : \E mult \in Multipliers : CallAveragesNoMedians(inc, mult)
SpecStats == InitStats /\ [][NextStats]_vars

\* ------------------------------------------------------- decoder properties
\* The number of whole 930-byte chunks after the 8-byte header.
WholeChunks(buf) == IF buf.size >= 8 THEN (buf.size - 8) \div 930 ELSE 0
\* The buffer cut back to its whole chunks.
Truncated(buf) == [size |-> 8 + 930 * WholeChunks(buf),
                   windows |-> SubSeq(buf.windows, 1, WholeChunks(buf))]
\* The slots of the whole chunks, as (window, offset) pairs.
SlotsOf(buf) == {<<c, o>> : c \in 1..WholeChunks(buf), o \in WireOffsets}
RawAt(buf, s) == buf.windows[s[1]].at[s[2]]
KindAt(buf, s) == IF buf.windows[s[1]].hdr.stall_type = 1 THEN "SELL" ELSE "BUY"
Matching(buf, kind, id, price) ==
  {s \in SlotsOf(buf) : /\ KindAt(buf, s) = kind
                        /\ U16LE(RawAt(buf, s)) = id
                        /\ U32LE(RawAt(buf, s)) = price}
RECURSIVE SumQty(_, _)
SumQty(buf, S) == IF S = {} THEN 0
                  ELSE LET s == CHOOSE x \in S : TRUE
                       IN U8(RawAt(buf, s)) + SumQty(buf, S \ {s})
AllRaw == SlotChoices \cup FirstSlotChoices \cup {TailChunk.at[138]}
WireIds == {U16LE(b) : b \in AllRaw}
WirePrices == {U32LE(b) : b \in AllRaw}
Kinds == {"SELL", "BUY"}

\* C8: a buffer of 8 + 930*N + k bytes (0 <= k < 930) decodes exactly N stalls,
\* and the histograms and the SELL rows are those of the buffer cut back to its
\* N whole chunks: a trailing short chunk contributes nothing.
C8_ChunkBoundary ==
  (pc = "extracted" /\ content.size >= 8) =>
     /\ stalls = WholeChunks(content)
     /\ extracted = extract(Truncated(content)).items
     /\ rows = extract(Truncated(content)).rows
     /\ Len(rows) = Cardinality({s \in SlotsOf(content) :
                        KindAt(content, s) = "SELL" /\ U16LE(RawAt(content, s)) > 0})
C8_Witness ==
  /\ pc = "extracted"
  /\ content.size = 8 + 930 * 2 + 929
  /\ stalls = 2
  /\ Len(content.windows) = 3
  /\ Len(rows) > 0

\* C9: no slot with item_id <= 0 reaches the output of extract: no such key in
\* the SELL or BUY histogram, no such SELL row.
C9_EmptySlotsSkipped ==
  pc = "extracted" =>
     /\ \A kind \in Kinds : \A k \in DOMAIN extracted[kind] : int(k) > 0
     /\ \A i \in 1..Len(rows) : rows[i].item_id > 0
C9_Witness ==
  /\ pc = "extracted"
  /\ \E s \in SlotsOf(content) : /\ KindAt(content, s) = "SELL"
                                 /\ U16LE(RawAt(content, s)) = 0
                                 /\ U32LE(RawAt(content, s)) > 0
                                 /\ U8(RawAt(content, s)) > 0
  /\ \E s \in SlotsOf(content) : KindAt(content, s) = "BUY" /\ U16LE(RawAt(content, s)) = 0
  /\ Len(rows) > 0

\* C10: the quantity extract stores for (kind, item_id, price) is the sum of the
\* quantities of all decoded slots with item_id > 0, that item_id and that price
\* in stalls of that kind (flag 1 is SELL, any other flag is BUY), and a key is
\* stored exactly when such a slot exists.
C10_SumWithinPass ==
  pc = "extracted" =>
     \A kind \in Kinds : \A id \in WireIds \ {0} : \A price \in WirePrices :
        LET M == Matching(content, kind, id, price)
            pm == Get(extracted[kind], IntKey(id), EmptyDict)
        IN /\ (IntKey(price) \in DOMAIN pm) <=> (M # {})
           /\ Get(pm, IntKey(price), 0) = SumQty(content, M)
C10_Witness ==
  /\ pc = "extracted"
  /\ Cardinality(Matching(content, "SELL", 1, 5)) = 2
  /\ extracted["SELL"][IntKey(1)][IntKey(5)] = 3
  /\ \E s \in Matching(content, "BUY", 1, 5) : content.windows[s[1]].hdr.stall_type = 2

\* ------------------------------------------------------ pipeline properties
\* The quantity an entry (a kind -> item -> price -> quantity mapping) stores
\* for (kind, item_id, price) under string keys, and whether it stores one.
HasQty(entry, kind, id, price) ==
  /\ kind \in DOMAIN entry
  /\ StrKey(id) \in DOMAIN entry[kind]
  /\ StrKey(price) \in DOMAIN entry[kind][StrKey(id)]
QtyOf(entry, kind, id, price) ==
  IF HasQty(entry, kind, id, price) THEN entry[kind][StrKey(id)][StrKey(price)] ELSE 0
Larger(a, b) == IF a < b THEN b ELSE a
SetMax(S) == CHOOSE x \in S : \A y \in S : y <= x
OnlyStrKeys(d) == \A k \in DOMAIN d : k[1] = "str"

\* C2: when the date is already in the loaded store, merge_history leaves, for
\* every (kind, item_id, price, quantity) of the snapshot, the larger of the
\* previously stored quantity (0 if none) and the snapshot's quantity.
C2_MergeMax ==
  (pc = "ran" /\ today \in DOMAIN loaded) =>
     \A kind \in DOMAIN extracted : \A iid \in DOMAIN extracted[kind] :
        \A pk \in DOMAIN extracted[kind][iid] :
           LET want == Larger(QtyOf(loaded[today], kind, int(iid), int(pk)),
                              extracted[kind][iid][pk])
           IN /\ HasQty(history[today], kind, int(iid), int(pk))
              /\ QtyOf(history[today], kind, int(iid), int(pk)) = want
              /\ QtyOf(disk[today], kind, int(iid), int(pk)) = want
C2_Witness ==
  /\ pc = "ran"
  /\ today \in DOMAIN loaded
  /\ QtyOf(loaded[today], "SELL", 1, 5) = 3
  /\ IntKey(1) \in DOMAIN extracted["SELL"]
  /\ extracted["SELL"][IntKey(1)] = [k \in {IntKey(5)} |-> 2]
  /\ QtyOf(history[today], "SELL", 1, 5) = 3

RECURSIVE SumReported(_)
SumReported(E) == IF E = {} THEN 0
                  ELSE LET e == CHOOSE x \in E : TRUE IN e[6] + SumReported(E \ {e})

\* C3: after any number of runs on one day, the stored quantity of every
\* (kind, item_id, price) of that day is the maximum of the quantities the runs'
\* snapshots reported for it, a key is stored exactly when a run reported it,
\* and when two or more runs reported a positive quantity the stored quantity
\* is less than what adding the runs' quantities up would give.
C3_MaxAcrossRuns ==
  \A d \in DOMAIN disk : \A kind \in Kinds : \A id \in WireIds : \A price \in WirePrices :
     LET E == {e \in reported : <<e[2], e[3], e[4], e[5]>> = <<d, kind, id, price>>}
     IN /\ HasQty(disk[d], kind, id, price) <=> (E # {})
        /\ E # {} => QtyOf(disk[d], kind, id, price) = SetMax({e[6] : e \in E})
        /\ Cardinality({e \in E : e[6] > 0}) >= 2
              => QtyOf(disk[d], kind, id, price) < SumReported(E)
        /\ OnlyStrKeys(disk[d][kind])
C3_Witness ==
  /\ runs = 3
  /\ \E e1, e2 \in reported : /\ e1[1] # e2[1]
                              /\ <<e1[2], e1[3], e1[4], e1[5]>> = <<2, "SELL", 1, 5>>
                              /\ <<e2[2], e2[3], e2[4], e2[5]>> = <<2, "SELL", 1, 5>>
                              /\ e1[6] = 3 /\ e2[6] = 2
  /\ QtyOf(disk[2], "SELL", 1, 5) = 3

\* C4: when the date is not in the loaded store, merge_history makes the
\* snapshot itself that date's entry: the SELL and BUY histograms of the
\* snapshot, key for key, and the file holds the same quantities.
C4_InsertVerbatim ==
  (pc = "ran" /\ today \notin DOMAIN loaded) =>
     /\ history[today] = extracted
     /\ DOMAIN disk[today] = Kinds
     /\ \A kind \in Kinds :
          /\ DOMAIN disk[today][kind] = {str(iid) : iid \in DOMAIN extracted[kind]}
          /\ \A iid \in DOMAIN extracted[kind] :
               /\ DOMAIN disk[today][kind][str(iid)] = {str(pk) : pk \in DOMAIN extracted[kind][iid]}
               /\ \A pk \in DOMAIN extracted[kind][iid] :
                    disk[today][kind][str(iid)][str(pk)] = extracted[kind][iid][pk]
C4_Witness ==
  /\ pc = "ran"
  /\ today = 2
  /\ today \notin DOMAIN loaded
  /\ 1 \in DOMAIN loaded
  /\ DOMAIN extracted["SELL"] = {IntKey(1), IntKey(256)}
  /\ history[today] = extracted

\* C5: a step never removes a date from the stored history and changes no
\* entry but the one of the date being merged.
C5_AppendOnly ==
  [][\A d \in DOMAIN disk : /\ d \in DOMAIN disk'
                            /\ d # today => disk'[d] = disk[d]]_vars
C5_Witness ==
  /\ pc = "ran"
  /\ today = 2
  /\ DOMAIN disk = {1, 2}
  /\ DOMAIN loaded = {1, 2}
  /\ disk[2] # loaded[2]
  /\ disk[1] = loaded[1]
  /\ disk[1]["SELL"] # EmptyDict

\* ------------------------------------------------- merge and run properties
\* C1: merge_history applied a second time, for the same date and with the same
\* snapshot, returns (raises nothing) and yields a history equal to the result
\* of its first application.
C1_MergeIdempotent ==
  applied = 2 => (~raised /\ history = first)

\* One serialized run on the file d: load, merge_history, write.
PersistRun(d, buf) == json_dump(merge_history(d, extract(buf).items, today))
\* What the snapshot of a buffer reports for (kind, item_id, price).
SnapHas(buf, kind, id, price) ==
  LET snap == extract(buf).items
  IN IntKey(id) \in DOMAIN snap[kind] /\ IntKey(price) \in DOMAIN snap[kind][IntKey(id)]
SnapQty(buf, kind, id, price) ==
  IF SnapHas(buf, kind, id, price) THEN extract(buf).items[kind][IntKey(id)][IntKey(price)] ELSE 0
EntryOf(d, day) == IF day \in DOMAIN d THEN d[day] ELSE EmptyDict

\* C7: when two runs of one day are serialized, the file after both is the
\* same whichever ran first: every (kind, item_id, price) of the day holds the
\* largest of the quantity stored before and the two runs' quantities, every
\* key stored before or reported by a run is stored, and the other dates are
\* as before.
C7_SerializedOrder ==
  doneRuns = {"A", "B"} =>
     /\ disk = PersistRun(PersistRun(disk0, plan["A"]), plan["B"])
     /\ disk = PersistRun(PersistRun(disk0, plan["B"]), plan["A"])
     /\ \A kind \in Kinds : \A id \in WireIds : \A price \in WirePrices :
          /\ HasQty(disk[today], kind, id, price)
               <=> \/ HasQty(EntryOf(disk0, today), kind, id, price)
                   \/ SnapHas(plan["A"], kind, id, price)
                   \/ SnapHas(plan["B"], kind, id, price)
          /\ QtyOf(disk[today], kind, id, price)
               = Larger(QtyOf(EntryOf(disk0, today), kind, id, price),
                        Larger(SnapQty(plan["A"], kind, id, price),
                               SnapQty(plan["B"], kind, id, price)))
     /\ \A d \in DOMAIN disk0 : d # today => (d \in DOMAIN disk /\ disk[d] = disk0[d])
C7_Witness ==
  /\ doneRuns = {"A", "B"}
  /\ content = plan["A"]
  /\ QtyOf(EntryOf(disk0, today), "SELL", 1, 5) = 2
  /\ SnapQty(plan["A"], "SELL", 1, 5) = 1
  /\ SnapHas(plan["A"], "SELL", 256, 7)
  /\ SnapQty(plan["B"], "SELL", 1, 5) = 3
  /\ ~SnapHas(plan["B"], "SELL", 256, 7)
  /\ QtyOf(disk[today], "SELL", 1, 5) = 3
  /\ HasQty(disk[today], "SELL", 256, 7)

\* --------------------------------------------------- handed-store properties
\* A date entry of the handed history lacks the SELL or the BUY key.
LacksKind(hist) == \E d \in DOMAIN hist : ~(Kinds \subseteq DOMAIN hist[d])
\* The handed history has a key that is not a number.
HasBadKey(hist) ==
  \E d \in DOMAIN hist : \E kind \in DOMAIN hist[d] :
     \E iid \in DOMAIN hist[d][kind] :
        IntRaises(iid) \/ \E pk \in DOMAIN hist[d][kind][iid] : IntRaises(pk)
\* The history with every missing SELL or BUY histogram put in, empty.
Repaired(hist) ==
  [d \in DOMAIN hist |-> [k \in (DOMAIN hist[d]) \cup Kinds |-> Get(hist[d], k, EmptyDict)]]

\* C6 as stated: handed a history in which a date entry lacks SELL or BUY,
\* merge_history, compute_sell_medians and compute_sell_averages signal an error.
C6_FailsLoudly ==
  (pc \in {"merged", "medians", "averages"} /\ LacksKind(loaded)) => raised

\* C6 as amended: handed a history in which a date entry lacks SELL or BUY (and
\* whose keys are all numbers), none of the three signals an error;
\* merge_history puts the missing histograms into today's entry and merges
\* into them, and the medians and averages are those of the history with the
\* missing histograms read as empty.
C6_MissingKindTolerated ==
  (LacksKind(loaded) /\ ~HasBadKey(loaded)) =>
     /\ pc = "merged" =>
          /\ ~raised
          /\ Kinds \subseteq DOMAIN history[today]
          /\ today \in DOMAIN loaded =>
               history[today] = merge_history(Repaired(loaded), extracted, today)[today]
          /\ \A d \in DOMAIN loaded : d # today => history[d] = loaded[d]
     /\ pc = "medians" =>
          /\ ~raised
          /\ medians = compute_sell_medians(Repaired(loaded), include_today, today).val
     /\ pc = "averages" =>
          /\ ~raised
          /\ averages = compute_sell_averages(Repaired(loaded), include_today, medians,
                                              OUTLIER_MULTIPLIER, today).val
C6_Witness ==
  /\ pc = "averages"
  /\ ~raised
  /\ DOMAIN loaded = {1, 2}
  /\ "SELL" \notin DOMAIN loaded[1]
  /\ 1 \in DOMAIN medians
  /\ 1 \in DOMAIN averages

\* ------------------------------------------------------ statistics properties
StatItems == {t[1] : t \in UNION StatOffers} \cup {3}
StatPrices == {t[2] : t \in UNION StatOffers} \cup {1000}
KeyTypes == {"int", "str"}
\* Day d of the history records the SELL price p for item n, and with which quantity.
HasPrice(hist, d, n, p) ==
  \E t \in KeyTypes : /\ "SELL" \in DOMAIN hist[d]
                      /\ <<t, n>> \in DOMAIN hist[d]["SELL"]
                      /\ <<t, p>> \in DOMAIN hist[d]["SELL"][<<t, n>>]
QtyRecorded(hist, d, n, p) ==
  LET t == CHOOSE x \in KeyTypes : <<x, n>> \in DOMAIN hist[d]["SELL"]
  IN hist[d]["SELL"][<<t, n>>][<<t, p>>]
Qualifies(d) == d \in DOMAIN loaded /\ (include_today \/ d # today)
\* The <<date, price>> observations of item n on the qualifying dates.
Observed(n) == {o \in (DOMAIN loaded) \X StatPrices : Qualifies(o[1]) /\ HasPrice(loaded, o[1], n, o[2])}
AtMost(n, v) == Cardinality({o \in Observed(n) : o[2] <= v})
\* The value of rank r (1 is the smallest) among the observed prices of item n.
Ranked(n, r) == CHOOSE v \in StatPrices :
                   /\ AtMost(n, v) >= r
                   /\ \A w \in StatPrices : AtMost(n, w) >= r => v <= w

\* C11: compute_sell_medians returns, for each item, the median of the list
\* with one entry per (qualifying date, SELL price key) of the item, whatever
\* the quantity: the middle value of an odd count, the mean of the two middle
\* values of an even count (here doubled); an item without an observation is
\* absent from the result.
C11_MedianOfObservations ==
  pc = "medians" =>
     /\ ~raised
     /\ DOMAIN medians \subseteq StatItems
     /\ \A n \in StatItems :
          LET N == Cardinality(Observed(n))
          IN /\ (n \in DOMAIN medians) <=> (N > 0)
             /\ N > 0 => medians[n] = Ranked(n, (N + 1) \div 2) + Ranked(n, N \div 2 + 1)
C11_Witness ==
  /\ pc = "medians"
  /\ Cardinality(Observed(1)) = 3
  /\ Cardinality({o \in Observed(1) : o[2] = 10}) = 2
  /\ Cardinality({o \in Observed(1) : o[2] = 30}) = 1
  /\ \E o \in Observed(1) : QtyRecorded(loaded, o[1], 1, o[2]) = 0
  /\ medians[1] = 20
  /\ 2 \in DOMAIN medians
  /\ medians[2] = 0

\* The observations of item n that have a positive quantity and are not
\* outliers: the item has no median, or the price is below median * multiplier.
Surviving(n) ==
  {o \in Observed(n) :
     /\ QtyRecorded(loaded, o[1], n, o[2]) > 0
     /\ ~(/\ n \in DOMAIN medians
          /\ 2 * outlier_multiplier.den * o[2] >= medians[n] * outlier_multiplier.num)}
RECURSIVE Cost(_, _)
Cost(n, S) == IF S = {} THEN 0
              ELSE LET o == CHOOSE x \in S : TRUE
                   IN o[2] * QtyRecorded(loaded, o[1], n, o[2]) + Cost(n, S \ {o})
RECURSIVE Units(_, _)
Units(n, S) == IF S = {} THEN 0
               ELSE LET o == CHOOSE x \in S : TRUE
                    IN QtyRecorded(loaded, o[1], n, o[2]) + Units(n, S \ {o})

\* C12: compute_sell_averages takes, for each item, exactly the SELL pairs of
\* the qualifying dates with quantity > 0 that are not outliers (price >=
\* median * multiplier for an item that has a median); the item's result is
\* sum(price*quantity) / sum(quantity) with the number of these pairs, the
\* divisor is positive, and an item without such a pair is absent.
C12_FilteredWeightedAverage ==
  pc \in {"averages", "averages_no_medians"} =>
     /\ ~raised
     /\ DOMAIN averages \subseteq StatItems
     /\ \A n \in StatItems :
          LET S == Surviving(n)
          IN /\ (n \in DOMAIN averages) <=> (S # {})
             /\ S # {} => /\ averages[n].sum_pq = Cost(n, S)
                          /\ averages[n].sum_q = Units(n, S)
                          /\ averages[n].obs = Cardinality(S)
                          /\ averages[n].sum_q > 0
C12_Witness ==
  /\ pc = "averages"
  /\ 1 \in DOMAIN medians
  /\ medians[1] = 20
  /\ outlier_multiplier = [num |-> 3, den |-> 1]
  /\ \E d \in DOMAIN loaded :
        /\ HasPrice(loaded, d, 1, 30) /\ QtyRecorded(loaded, d, 1, 30) = 5
        /\ HasPrice(loaded, d, 1, 29) /\ QtyRecorded(loaded, d, 1, 29) = 5
        /\ <<d, 30>> \in Observed(1) \ Surviving(1)
        /\ <<d, 29>> \in Surviving(1)
  /\ 1 \in DOMAIN averages
  /\ averages[1].obs = 5
  /\ averages[1].sum_pq = 217
  /\ averages[1].sum_q = 14

\* C13: when the averages are computed with the medians of the same history,
\* the same include_today and a positive multiplier, every item with an average
\* has a median and its average is below median * multiplier, so an item whose
\* median is 0 has no average.
C13_AverageBelowThreshold ==
  (/\ pc = "averages"
   /\ medians = compute_sell_medians(loaded, include_today, today).val
   /\ outlier_multiplier.num > 0 /\ outlier_multiplier.den > 0) =>
     /\ \A n \in DOMAIN averages :
          /\ n \in DOMAIN medians
          /\ 2 * outlier_multiplier.den * averages[n].sum_pq
               < medians[n] * outlier_multiplier.num * averages[n].sum_q
     /\ \A n \in DOMAIN medians : medians[n] = 0 => n \notin DOMAIN averages
C13_Witness ==
  /\ pc = "averages"
  /\ 2 \in DOMAIN medians
  /\ medians[2] = 0
  /\ \E d \in DOMAIN loaded : HasPrice(loaded, d, 2, 0) /\ QtyRecorded(loaded, d, 2, 0) = 3
  /\ 2 \notin DOMAIN averages
  /\ 1 \in DOMAIN averages
  /\ averages[1].sum_q > 0
====
